---- MODULE Spec2Model ----
(***************************************************************************)
(* Model of the VanitySearch wrapper of pocx-wallet                        *)
(* (src/PocxWallet.Native/src/vanitysearch_wrapper.cpp).                   *)
(*                                                                         *)
(* The wrapper keeps two file-scope variables, last_error and              *)
(* stop_requested, and exports init / find / stop / cleanup / get_error.   *)
(* find is a blocking call; the other operations are meant to be called    *)
(* from other threads while it runs.  Each caller of find is a thread with *)
(* a program counter that walks the statements of vanitysearch_find; the   *)
(* control operations are single statements and are atomic actions.        *)
(*                                                                         *)
(* stop_requested is a volatile int shared without synchronisation: every  *)
(* read and every write of it is a separate step, so a reader sees either  *)
(* the old or the new value, which are the outcomes a build can produce.   *)
(*                                                                         *)
(* Text is modelled as a sequence of one-character strings (pattern,       *)
(* address) so that "begins with" is computed; the mnemonic and the error  *)
(* message are only copied and compared and are TLA+ strings.              *)
(* elapsed_seconds and the rate passed to the callback are clock readings  *)
(* that decide nothing and are left out.                                   *)
(*                                                                         *)
(* set_error and vanitysearch_get_error are single steps: the model covers *)
(* the calls that do not overlap a strncpy into last_error.  Overlapping   *)
(* accesses to that buffer are a data race whose result is indeterminate.  *)
(***************************************************************************)
EXTENDS Integers, Sequences, FiniteSets, TLC

(***************************************************************************)
(* Scale of the model.  The loop of find counts attempts one by one up to  *)
(* 999999, the progress period is 10000 and the match period is 1000000    *)
(* (wrapper lines 60 and 67).  The model keeps the structure (a progress   *)
(* callback whenever attempts is a multiple of the period, a match when    *)
(* attempts is one short of a multiple of the match period) with periods   *)
(* small enough to enumerate, and far enough apart for a search to make   *)
(* several progress callbacks before its match.                            *)
(***************************************************************************)
ProgressEvery == 2

MatchEvery == 6

\* The threads that may call vanitysearch_find.
Threads == {"A", "B"}

\* A null pointer passed for a char* argument.
NullPtr == <<"<null>">>

\* char last_error[256] = {0}
NoError == ""

InvalidParametersMsg == "Invalid parameters"

\* strcpy(result->address, "pocx1qexample...")
DemoAddress == <<"p", "o", "c", "x", "1", "q", "e", "x", "a", "m", "p", "l", "e", ".", ".", ".">>

\* strcpy(result->mnemonic, "abandon abandon abandon...")
DemoMnemonic == "abandon abandon abandon..."

\* memset(result, 0, sizeof(VanitySearchResult))
ZeroResult == [found |-> 0, mnemonic |-> "", address |-> <<>>, attempts |-> 0]

\* What a caller's buffer may hold before the call: zeroes, or the result of
\* an earlier successful search.
BufferContents == {ZeroResult,
                   [found |-> 1, mnemonic |-> DemoMnemonic, address |-> DemoAddress,
                    attempts |-> MatchEvery - 1]}

\* The patterns the callers pass: null, empty, one with a character outside
\* the address alphabet, the header's kind of example, and the beginning of
\* the address the placeholder returns.
PatternArgs == {NullPtr, <<>>, <<"b">>, <<"m", "a">>, <<"e", "x">>}

\* The max_attempts values the callers pass: unbounded, a ceiling below the
\* first match, a ceiling above it.
MaxAttemptsArgs == {0, ProgressEvery, MatchEvery}

NoStatus == 99

VARIABLES
    last_error,      \* static char last_error[256]
    stop_requested,  \* static volatile int stop_requested
    pc,              \* pc[t]: where thread t is in vanitysearch_find
    pattern,         \* pattern[t]: argument of the call
    max_attempts,    \* max_attempts[t]: argument of the call
    progress_cb,     \* progress_cb[t]: TRUE iff the callback argument is non-null
    resultPtr,       \* resultPtr[t]: TRUE iff the result argument is non-null
    result,          \* result[t]: the caller's VanitySearchResult buffer
    attempts,        \* attempts[t]: the local counter of the call
    status,          \* status[t]: the value the call returned
    cbCalls,         \* cbCalls[t]: attempts arguments of the callback invocations of the call
    staleStop,       \* staleStop[t]: the flag was set when the call was entered
    stopCalled,      \* stopCalled[t]: stop() was called while the call was Running
    stopAt,          \* stopAt[t]: attempts[t] at the first such stop()
    exitByStop,      \* exitByStop[t]: the loop test that ended the loop saw the flag set
    initSeen,        \* init() was called during the current call, with the flag set
    errRead,         \* the text the last vanitysearch_get_error() returned
    initRet          \* the value the last vanitysearch_init() returned

vars == <<last_error, stop_requested, pc, pattern, max_attempts, progress_cb,
          resultPtr, result, attempts, status, cbCalls, staleStop, stopCalled,
          stopAt, exitByStop, initSeen, errRead, initRet>>

\* The variables of the program, without the history variables.
progVars == <<last_error, stop_requested, pc, pattern, max_attempts, progress_cb,
              resultPtr, result, attempts, status>>

args == <<pattern, max_attempts, progress_cb, resultPtr>>

history == <<cbCalls, staleStop, stopCalled, stopAt, exitByStop, initSeen>>

\* The call has been entered and has not returned.
InCall(t) == pc[t] \in {"entry", "init", "loop", "body", "notfound", "ret"}

\* The call has passed the parameter check and has not returned.
Running(t) == pc[t] \in {"init", "loop", "body", "notfound", "ret"}

\* The library is loaded and the host has called vanitysearch_init() once.
Init ==
    /\ last_error = NoError
    /\ stop_requested = 0
    /\ pc = [t \in Threads |-> "idle"]
    /\ pattern = [t \in Threads |-> NullPtr]
    /\ max_attempts = [t \in Threads |-> 0]
    /\ progress_cb = [t \in Threads |-> FALSE]
    /\ resultPtr = [t \in Threads |-> FALSE]
    /\ result = [t \in Threads |-> ZeroResult]
    /\ attempts = [t \in Threads |-> 0]
    /\ status = [t \in Threads |-> NoStatus]
    /\ cbCalls = [t \in Threads |-> <<>>]
    /\ staleStop = [t \in Threads |-> FALSE]
    /\ stopCalled = [t \in Threads |-> FALSE]
    /\ stopAt = [t \in Threads |-> 0]
    /\ exitByStop = [t \in Threads |-> FALSE]
    /\ initSeen = FALSE
    /\ errRead = NoError
    /\ initRet = 0

\* set_error that does not copy the message.
set_error_dropped(msg) == last_error' = last_error

\* set_error(msg): strncpy into last_error, then terminate it.
set_error(msg) == last_error' = msg

\* vanitysearch_init that also resets the session's flag.
vanitysearch_init_resets ==
    /\ set_error(NoError)
    /\ initRet' = 0
    /\ stop_requested' = 0
    /\ initSeen' = (initSeen \/ (stop_requested # 0 /\ \E t \in Threads : Running(t)))
    /\ UNCHANGED <<pc, args, result, attempts, status, cbCalls, staleStop, stopCalled,
                   stopAt, exitByStop, errRead>>

\* vanitysearch_init(): set_error(""); return 0.
vanitysearch_init ==
    /\ set_error(NoError)
    /\ initRet' = 0
    /\ initSeen' = (initSeen \/ (stop_requested # 0 /\ \E t \in Threads : Running(t)))
    /\ UNCHANGED <<stop_requested, pc, args, result, attempts, status, cbCalls, staleStop,
                   stopCalled, stopAt, exitByStop, errRead>>

\* A thread calls vanitysearch_find(p, use_gpu, m, cb, rp) with arguments drawn
\* from the given sets; bufs is what the caller's buffer may hold.
FindCallWith(t, patterns, ceilings, callbacks, resultPtrs, bufs) ==
    /\ pc[t] \in {"idle", "done"}
    /\ \E p \in patterns, m \in ceilings, cb \in callbacks, rp \in resultPtrs, buf \in bufs :
        /\ pattern' = [pattern EXCEPT ![t] = p]
        /\ max_attempts' = [max_attempts EXCEPT ![t] = m]
        /\ progress_cb' = [progress_cb EXCEPT ![t] = cb]
        /\ resultPtr' = [resultPtr EXCEPT ![t] = rp]
        /\ result' = [result EXCEPT ![t] = IF rp THEN buf ELSE ZeroResult]
    /\ pc' = [pc EXCEPT ![t] = "entry"]
    /\ attempts' = [attempts EXCEPT ![t] = 0]
    /\ status' = [status EXCEPT ![t] = NoStatus]
    /\ cbCalls' = [cbCalls EXCEPT ![t] = <<>>]
    /\ staleStop' = [staleStop EXCEPT ![t] = (stop_requested # 0)]
    /\ stopCalled' = [stopCalled EXCEPT ![t] = FALSE]
    /\ stopAt' = [stopAt EXCEPT ![t] = 0]
    /\ exitByStop' = [exitByStop EXCEPT ![t] = FALSE]
    /\ initSeen' = FALSE
    /\ UNCHANGED <<last_error, stop_requested, errRead, initRet>>

\* A call with any of the modelled arguments.
FindCall(t) ==
    FindCallWith(t, PatternArgs, MaxAttemptsArgs, BOOLEAN, BOOLEAN, BufferContents)

\* A well-formed call, as two hosts sharing the library would make it.
FindCallValid(t) ==
    FindCallWith(t, {<<"m", "a">>}, {0, ProgressEvery}, {FALSE}, {TRUE}, {ZeroResult})

\* if (!pattern || !result)
InvalidParameters(p, rp) == p = NullPtr \/ ~rp

\* Lines 40-43: the parameter check.
FindCheck(t) ==
    /\ pc[t] = "entry"
    /\ IF InvalidParameters(pattern[t], resultPtr[t])
       THEN /\ set_error(InvalidParametersMsg)
            /\ status' = [status EXCEPT ![t] = -1]
            /\ pc' = [pc EXCEPT ![t] = "done"]
       ELSE /\ pc' = [pc EXCEPT ![t] = "init"]
            /\ UNCHANGED <<last_error, status>>
    /\ UNCHANGED <<stop_requested, args, result, attempts, history, errRead, initRet>>

\* FindInit without line 46: the caller's buffer is not cleared.
FindInitNoMemset(t) ==
    /\ pc[t] = "init"
    /\ stop_requested' = 0
    /\ attempts' = [attempts EXCEPT ![t] = 0]
    /\ pc' = [pc EXCEPT ![t] = "loop"]
    /\ UNCHANGED <<last_error, args, result, status, history, errRead, initRet>>

\* FindInit without line 51: the flag is left as the call found it.
FindInitKeepsFlag(t) ==
    /\ pc[t] = "init"
    /\ result' = [result EXCEPT ![t] = ZeroResult]
    /\ attempts' = [attempts EXCEPT ![t] = 0]
    /\ pc' = [pc EXCEPT ![t] = "loop"]
    /\ UNCHANGED <<last_error, stop_requested, args, status, history, errRead, initRet>>

\* Lines 46-53: memset the result, clear the flag, start the counter.
FindInit(t) ==
    /\ pc[t] = "init"
    /\ result' = [result EXCEPT ![t] = ZeroResult]
    /\ stop_requested' = 0
    /\ attempts' = [attempts EXCEPT ![t] = 0]
    /\ pc' = [pc EXCEPT ![t] = "loop"]
    /\ UNCHANGED <<last_error, args, status, history, errRead, initRet>>

\* The loop condition with the ceiling compared by <= instead of <.
LoopContinuesInclusive(flag, m, a) == flag = 0 /\ (m = 0 \/ a <= m)

\* while (!stop_requested && (max_attempts == 0 || attempts < max_attempts))
LoopContinues(flag, m, a) == flag = 0 /\ (m = 0 \/ a < m)

\* Line 56: one evaluation of the loop condition.
FindLoopTest(t) ==
    /\ pc[t] = "loop"
    /\ IF LoopContinues(stop_requested, max_attempts[t], attempts[t])
       THEN /\ pc' = [pc EXCEPT ![t] = "body"]
            /\ UNCHANGED exitByStop
       ELSE /\ pc' = [pc EXCEPT ![t] = "notfound"]
            /\ exitByStop' = [exitByStop EXCEPT ![t] = (stop_requested # 0)]
    /\ UNCHANGED <<last_error, stop_requested, args, result, attempts, status,
                   cbCalls, staleStop, stopCalled, stopAt, initSeen, errRead, initRet>>

\* The progress condition without the period: a callback on every attempt.
ProgressDueEveryAttempt(cb, a) == cb

\* The progress condition without the null check of the callback.
ProgressDueUnchecked(cb, a) == a % ProgressEvery = 0

\* if (progress_cb && attempts % 10000 == 0)
ProgressDue(cb, a) == cb /\ a % ProgressEvery = 0

\* The match condition on the multiples of the period themselves.
IsMatchOnMultiple(a) == a % MatchEvery = 0

\* if (attempts % 1000000 == 999999)
IsMatch(a) == a % MatchEvery = MatchEvery - 1

\* Lines 68-71: the result of a match.
FoundResult(a) ==
    [found |-> 1, mnemonic |-> DemoMnemonic, address |-> DemoAddress, attempts |-> a]

\* Lines 57-75: one iteration of the loop body.
FindBody(t) ==
    /\ pc[t] = "body"
    /\ LET a == attempts[t] + 1 IN
        /\ attempts' = [attempts EXCEPT ![t] = a]
        /\ cbCalls' = [cbCalls EXCEPT ![t] =
                          IF ProgressDue(progress_cb[t], a) THEN Append(@, a) ELSE @]
        /\ IF IsMatch(a)
           THEN /\ result' = [result EXCEPT ![t] = FoundResult(a)]
                /\ status' = [status EXCEPT ![t] = 0]
                /\ pc' = [pc EXCEPT ![t] = "done"]
           ELSE /\ pc' = [pc EXCEPT ![t] = "loop"]
                /\ UNCHANGED <<result, status>>
    /\ UNCHANGED <<last_error, stop_requested, args, staleStop, stopCalled, stopAt,
                   exitByStop, initSeen, errRead, initRet>>

\* Lines 78-80: the result of a search that ended without a match.
FindNotFound(t) ==
    /\ pc[t] = "notfound"
    /\ result' = [result EXCEPT ![t] = [@ EXCEPT !.found = 0, !.attempts = attempts[t]]]
    /\ pc' = [pc EXCEPT ![t] = "ret"]
    /\ UNCHANGED <<last_error, stop_requested, args, attempts, status, history, errRead, initRet>>

\* return stop_requested ? -2 : 0;
ReturnStatus(flag) == IF flag # 0 THEN -2 ELSE 0

\* Line 82: the flag is read again for the return value.
FindReturn(t) ==
    /\ pc[t] = "ret"
    /\ status' = [status EXCEPT ![t] = ReturnStatus(stop_requested)]
    /\ pc' = [pc EXCEPT ![t] = "done"]
    /\ UNCHANGED <<last_error, stop_requested, args, result, attempts, history, errRead, initRet>>

\* vanitysearch_stop(): stop_requested = 1.
vanitysearch_stop ==
    /\ stop_requested' = 1
    /\ stopCalled' = [t \in Threads |-> stopCalled[t] \/ Running(t)]
    /\ stopAt' = [t \in Threads |->
                    IF Running(t) /\ ~stopCalled[t] THEN attempts[t] ELSE stopAt[t]]
    /\ UNCHANGED <<last_error, pc, args, result, attempts, status, cbCalls, staleStop,
                   exitByStop, initSeen, errRead, initRet>>

\* vanitysearch_cleanup(): stop_requested = 0.
vanitysearch_cleanup ==
    /\ stop_requested' = 0
    /\ UNCHANGED <<last_error, pc, args, result, attempts, status, history, errRead, initRet>>

\* vanitysearch_get_error(): return last_error.
vanitysearch_get_error ==
    /\ errRead' = last_error
    /\ UNCHANGED <<last_error, stop_requested, pc, args, result, attempts, status, history,
                   initRet>>

\* The statements of vanitysearch_find after the call.
FindStep(t) ==
    \/ FindCheck(t)
    \/ FindInit(t)
    \/ FindLoopTest(t)
    \/ FindBody(t)
    \/ FindNotFound(t)
    \/ FindReturn(t)

vanitysearch_find(t) == FindCall(t) \/ FindStep(t)

Control ==
    \/ vanitysearch_init
    \/ vanitysearch_stop
    \/ vanitysearch_cleanup
    \/ vanitysearch_get_error

\* One host thread calls find, one request after the other, while other
\* threads call the control operations at any time.
Next ==
    \/ vanitysearch_find("A")
    \/ Control

Spec == Init /\ [][Next]_vars

\* A thread inside vanitysearch_find keeps being scheduled: every step of
\* the call is eventually taken.
SpecFair == Init /\ [][Next]_vars /\ \A t \in Threads : WF_vars(FindStep(t))

\* Two host threads call find without coordination.
NextReentrant ==
    \/ \E t \in Threads : FindCallValid(t) \/ FindStep(t)
    \/ Control

SpecReentrant == Init /\ [][NextReentrant]_vars

(***************************************************************************)
(* Vocabulary of the properties.                                           *)
(***************************************************************************)

\* The call of thread t has returned.
Returned(t) == pc[t] = "done"

\* The call of thread t passed the parameter check of line 40.
ValidCall(t) == ~InvalidParameters(pattern[t], resultPtr[t])

\* The fixed beginning of every address.
NetworkPrefix == <<"p", "o", "c", "x", "1", "q">>

StartsWith(s, prefix) ==
    /\ Len(prefix) <= Len(s)
    /\ SubSeq(s, 1, Len(prefix)) = prefix

\* matches(address, pattern), prefix mode: the address begins with the
\* network prefix immediately followed by the pattern.
matches(address, p) == StartsWith(address, NetworkPrefix \o p)

\* The 32 characters of the address encoding's data part.
AddressAlphabet ==
    {"q", "p", "z", "r", "y", "9", "x", "8", "g", "f", "2", "t", "v", "d", "w", "0",
     "s", "3", "j", "n", "5", "4", "k", "h", "c", "e", "6", "m", "u", "a", "7", "l"}

\* A pattern the matcher must reject: empty, or with a character outside the alphabet.
InvalidPattern(p) == p = <<>> \/ \E i \in 1..Len(p) : p[i] \notin AddressAlphabet

\* A pattern no address can satisfy.
Unsatisfiable(p) == \E i \in 1..Len(p) : p[i] \notin AddressAlphabet

(***************************************************************************)
(* C1. Cancellation latency: a find with max_attempts = 0 during which     *)
(* stop() was called while it was Running returns -2 with found = 0, and   *)
(* it made at most one more attempt after the stop().                      *)
(***************************************************************************)
C1_CancellationLatency ==
    \A t \in Threads :
        (Returned(t) /\ ValidCall(t) /\ max_attempts[t] = 0 /\ stopCalled[t])
            => /\ status[t] = -2
               /\ result[t].found = 0
               /\ attempts[t] - stopAt[t] <= 1

(***************************************************************************)
(* C2. Budget enforcement: a find with max_attempts = K > 0 and a pattern  *)
(* no address can satisfy, during which stop() was not called, returns     *)
(* status 0 with found = 0 and attempts >= K.                              *)
(***************************************************************************)
C2_BudgetEnforcement ==
    \A t \in Threads :
        (Returned(t) /\ ValidCall(t) /\ max_attempts[t] > 0
                     /\ Unsatisfiable(pattern[t]) /\ ~stopCalled[t])
            => /\ status[t] = 0
               /\ result[t].found = 0
               /\ result[t].attempts >= max_attempts[t]

(***************************************************************************)
(* C3. Match soundness: when find returns with found = 1, the address of   *)
(* the result begins with pocx1q followed by the pattern of the call.      *)
(***************************************************************************)
C3_MatchSoundness ==
    \A t \in Threads :
        (Returned(t) /\ ValidCall(t) /\ result[t].found = 1)
            => matches(result[t].address, pattern[t])

(***************************************************************************)
(* C4. Fail-fast pattern validation: a call whose pattern is empty or has  *)
(* a character outside the alphabet never counts an attempt or invokes the *)
(* callback, and it returns an error status.                               *)
(***************************************************************************)
C4_FailFastPattern ==
    \A t \in Threads :
        (ValidCall(t) /\ InvalidPattern(pattern[t]))
            => /\ attempts[t] = 0
               /\ cbCalls[t] = <<>>
               /\ Returned(t) => status[t] < 0

(***************************************************************************)
(* C5. Non-reentrancy: at most one search is Running at any time.          *)
(***************************************************************************)
C5_AtMostOneRunning == Cardinality({t \in Threads : Running(t)}) <= 1

(***************************************************************************)
(* C6. Cancelled is told from Exhausted by the status alone: a find that   *)
(* went through the loop returns -2 exactly when the loop test that ended  *)
(* the loop saw the flag set, and one that returns 0 with found = 0 had a  *)
(* ceiling and reached it.                                                 *)
(***************************************************************************)
C6_CancelledIffStopObserved ==
    \A t \in Threads :
        (Returned(t) /\ ValidCall(t))
            => /\ (status[t] = -2) <=> exitByStop[t]
               /\ (status[t] = 0 /\ result[t].found = 0)
                    => (max_attempts[t] # 0 /\ result[t].attempts >= max_attempts[t])

(***************************************************************************)
(* C7. A stop request is never lost: once stop() has been called during a  *)
(* Running find, the flag is set for as long as that find is Running.      *)
(***************************************************************************)
C7_StopNeverLost ==
    \A t \in Threads : (Running(t) /\ stopCalled[t]) => stop_requested = 1

(***************************************************************************)
(* C8. Exhausted outcome shape: the attempt counter of a find with ceiling *)
(* K # 0 never exceeds K, and a find that returns without a match and      *)
(* without a stop() during it returns 0 with found = 0, attempts = K and   *)
(* empty mnemonic and address.                                             *)
(***************************************************************************)
C8_ExhaustedShape ==
    \A t \in Threads :
        /\ max_attempts[t] # 0 => attempts[t] <= max_attempts[t]
        /\ (Returned(t) /\ ValidCall(t) /\ max_attempts[t] # 0
                        /\ ~stopCalled[t] /\ result[t].found = 0)
             => /\ status[t] = 0
                /\ result[t].attempts = max_attempts[t]
                /\ result[t].mnemonic = ""
                /\ result[t].address = <<>>

\* A search with a ceiling has run to the ceiling and returned Exhausted.
C8_Witness ==
    \E t \in Threads :
        /\ Returned(t) /\ ValidCall(t) /\ ~stopCalled[t]
        /\ max_attempts[t] > 0
        /\ status[t] = 0
        /\ result[t] = [ZeroResult EXCEPT !.attempts = max_attempts[t]]

\* The step is an invocation of the progress callback of thread t.
CallbackInvoked(t) == Len(cbCalls'[t]) > Len(cbCalls[t])

(***************************************************************************)
(* C9. The progress callback is invoked only by a step of the loop body of *)
(* the find call it was passed to, a call that has passed the parameter    *)
(* check and has not returned, and only when progress_cb is non-null.      *)
(***************************************************************************)
C9_CallbackOnlyDuringFind ==
    [][\A t \in Threads :
          CallbackInvoked(t) =>
              /\ pc[t] = "body"
              /\ progress_cb[t]
              /\ ValidCall(t)
              /\ UNCHANGED args]_vars

\* A call has invoked its callback and has returned.
C9_Witness ==
    \E t \in Threads : Returned(t) /\ progress_cb[t] /\ Len(cbCalls[t]) >= 1

(***************************************************************************)
(* C10. stop() is idempotent and acts only on a Running search: a stop()   *)
(* in a state where the flag is already set changes nothing of the         *)
(* program, and a find during which stop() was not called returns 0 and    *)
(* does not leave its loop because of the flag, whatever the flag was when *)
(* the call was entered.                                                   *)
(***************************************************************************)
C10_StopIdempotentRunningOnly ==
    /\ [][(vanitysearch_stop /\ stop_requested = 1) => UNCHANGED progVars]_vars
    /\ [](\A t \in Threads :
            /\ exitByStop[t] => stopCalled[t]
            /\ (Returned(t) /\ ValidCall(t) /\ ~stopCalled[t]) => status[t] = 0)

\* A find entered with the flag still set, with no stop() during it, has run
\* to its ceiling and returned Exhausted.
C10_Witness ==
    \E t \in Threads :
        /\ Returned(t) /\ ValidCall(t)
        /\ staleStop[t] /\ ~stopCalled[t]
        /\ max_attempts[t] > 0
        /\ status[t] = 0
        /\ result[t].found = 0
        /\ result[t].attempts = max_attempts[t]

(***************************************************************************)
(* C11. cleanup() returns the session to Idle and clears the flag: after   *)
(* every cleanup() step no search is Running, the flag is clear and the    *)
(* last-error message is what it was.                                      *)
(***************************************************************************)
C11_CleanupResetsSession ==
    [][vanitysearch_cleanup =>
          /\ \A t \in Threads : ~Running(t)'
          /\ stop_requested' = 0
          /\ last_error' = last_error]_vars

\* The step is the return of the find call of thread t.
Returns(t) == pc[t] # "done" /\ pc'[t] = "done"

(***************************************************************************)
(* C12. Every error status comes with a message: when find returns a       *)
(* negative status, the last-error message is not empty at the return.     *)
(***************************************************************************)
C12_ErrorStatusHasMessage ==
    [][\A t \in Threads :
          (Returns(t) /\ status'[t] < 0) => last_error' # NoError]_vars

(***************************************************************************)
(* C13. get_error() returns the most recent error message, empty if none:  *)
(* init() leaves the message empty; a find rejected with -1 leaves it      *)
(* "Invalid parameters"; nothing else changes the message; get_error()     *)
(* returns the message as it is and changes nothing of the program, so two *)
(* calls in a row return the same text.  A failed operation is one         *)
(* rejected with -1; a cancelled find is an outcome of its own.            *)
(***************************************************************************)
C13_GetErrorMostRecent ==
    [][/\ vanitysearch_init => last_error' = NoError
       /\ \A t \in Threads :
            (Returns(t) /\ status'[t] = -1) => last_error' = InvalidParametersMsg
       /\ last_error' # last_error =>
            \/ last_error' = NoError /\ UNCHANGED pc
            \/ \E t \in Threads : Returns(t) /\ status'[t] = -1
       /\ vanitysearch_get_error => (errRead' = last_error /\ UNCHANGED progVars)
       /\ errRead' # errRead => (errRead' = last_error /\ UNCHANGED progVars)]_vars

\* A find was rejected and get_error() has returned its message.
C13_Witness ==
    \E t \in Threads :
        /\ Returned(t) /\ status[t] = -1
        /\ last_error = InvalidParametersMsg
        /\ errRead = InvalidParametersMsg

(***************************************************************************)
(* C14. init() is idempotent: every init() step returns 0, leaves the      *)
(* message empty and changes nothing else of the program, in particular    *)
(* not the flag nor the position of a Running find; an init() right after  *)
(* an init() changes nothing at all.                                       *)
(***************************************************************************)
C14_InitIdempotent ==
    [][vanitysearch_init =>
          /\ initRet' = 0
          /\ last_error' = NoError
          /\ UNCHANGED <<stop_requested, pc, args, result, attempts, status>>
          /\ (initRet = 0 /\ last_error = NoError) => UNCHANGED <<progVars, initRet>>]_vars

\* init() was called while a find was Running with a stop request pending:
\* the find is still Running and the request is still pending.
C14_Witness ==
    /\ initSeen
    /\ initRet = 0
    /\ last_error = NoError
    /\ stop_requested = 1
    /\ \E t \in Threads : Running(t) /\ stopCalled[t]

(***************************************************************************)
(* C15. An invalid request leaves a clean result: when find has returned   *)
(* -1 and the result pointer is non-null, the result holds attempts = 0    *)
(* and found = 0.                                                          *)
(***************************************************************************)
C15_InvalidRequestCleanResult ==
    \A t \in Threads :
        (Returned(t) /\ status[t] = -1 /\ resultPtr[t])
            => (result[t].attempts = 0 /\ result[t].found = 0)

\* The attempts arguments the callback receives while the counter goes from
\* 0 to a: the positive multiples of the period up to a, in order.
ExpectedCalls(a) == [i \in 1..(a \div ProgressEvery) |-> i * ProgressEvery]

(***************************************************************************)
(* C16. Progress cadence: at every point of a find call with a non-null    *)
(* callback, the callback has been invoked exactly once for each positive  *)
(* multiple of the period the counter has reached, in increasing order;    *)
(* once the call has returned, every argument it received is at most the   *)
(* attempts of the result.                                                 *)
(***************************************************************************)
C16_ProgressCadence ==
    \A t \in Threads :
        progress_cb[t] =>
            /\ cbCalls[t] = ExpectedCalls(attempts[t])
            /\ \A i, j \in 1..Len(cbCalls[t]) : i < j => cbCalls[t][i] < cbCalls[t][j]
            /\ (Returned(t) /\ ValidCall(t)) =>
                  \A i \in 1..Len(cbCalls[t]) : cbCalls[t][i] <= result[t].attempts

\* A call has returned after at least two callbacks and attempts in between.
C16_Witness ==
    \E t \in Threads :
        /\ Returned(t) /\ ValidCall(t) /\ progress_cb[t]
        /\ Len(cbCalls[t]) >= 2
        /\ result[t].attempts > Len(cbCalls[t])

\* The fields of a result agree with its found flag.
WellFormed(r) ==
    /\ r.found \in {0, 1}
    /\ r.found = 1 => (r.attempts >= 1 /\ r.mnemonic # "" /\ r.address # <<>>)
    /\ r.found = 0 => (r.mnemonic = "" /\ r.address = <<>>)

(***************************************************************************)
(* C17. Result consistency: from the memset of line 46 on, the result of a *)
(* find call is well-formed at every point: found = 1 comes with           *)
(* attempts >= 1 and non-empty mnemonic and address, found = 0 with both   *)
(* empty; a call that returns with found = 1 returns 0, and a call that    *)
(* returns -2 has found = 0.                                               *)
(***************************************************************************)
C17_ResultWellFormed ==
    \A t \in Threads :
        (ValidCall(t) /\ pc[t] \in {"loop", "body", "notfound", "ret", "done"})
            => /\ WellFormed(result[t])
               /\ (Returned(t) /\ result[t].found = 1) => status[t] = 0
               /\ (Returned(t) /\ status[t] = -2) => result[t].found = 0

\* A call has returned a match although stop() was called during it and the
\* flag is still set.
C17_Witness ==
    \E t \in Threads :
        /\ Returned(t) /\ ValidCall(t)
        /\ stopCalled[t] /\ stop_requested = 1
        /\ result[t] = FoundResult(MatchEvery - 1)
        /\ status[t] = 0

\* The counter value of the first placeholder match.
FirstMatch == MatchEvery - 1

====
